---- MODULE Spec2Model ----
(***************************************************************************)
(* cl4py, class Lisp (src/cl4py/lisp.py): one session that writes one      *)
(* request line per eval and reads back a frame of four values, then       *)
(* resolves the classes of the foreign instances met by the reader.        *)
(*                                                                         *)
(* The host side (eval, function, the constructor's calls) is translated   *)
(* from lisp.py.  The reader, the writer, LispWrapper and the engine       *)
(* (py.lisp) are not part of lisp.py; they are modelled at their boundary. *)
(* The echoes of debug and print_lisp_output (lines 96, 104-106) go to the *)
(* host's standard output and touch no state of the session.               *)
(***************************************************************************)
EXTENDS Integers, Sequences, FiniteSets, TLC

\* Bound of the model: calls of eval made by the user of a session.
MaxCalls == 2

\* Bound of the model: activations of eval under way at one time.
MaxDepth == 4

(***************************************************************************)
(* Values, on the wire and on the host (data.py).                          *)
(***************************************************************************)
NIL == [tag |-> "nil"]
None == [tag |-> "none"]
Bad == [tag |-> "bad"]
Num(n) == [tag |-> "int", n |-> n]
Str(s) == [tag |-> "str", s |-> s]
Symbol(n) == [tag |-> "sym", name |-> n]
Cons(a, d) == [tag |-> "cons", car |-> a, cdr |-> d]
Ref(t, h) == [tag |-> "ref", type |-> t, handle |-> h]
Obj(i) == [tag |-> "obj", id |-> i]
Tuple(s) == [tag |-> "tuple", items |-> s]

IsCons(v) == v.tag = "cons"

RECURSIVE MkList(_)
MkList(s) == IF s = <<>> THEN NIL ELSE Cons(Head(s), MkList(Tail(s)))

\* Cons.__iter__: the elements of a list, as tuple(val) collects them.
RECURSIVE ListElems(_)
ListElems(v) == IF IsCons(v) THEN <<v.car>> \o ListElems(v.cdr) ELSE <<>>

\* Python truth value of a host value (err.cdr in eval).
Truthy(v) ==
  CASE v.tag = "nil" -> FALSE
    [] v.tag = "none" -> FALSE
    [] v.tag = "str" -> v.s # ""
    [] v.tag = "int" -> v.n # 0
    [] OTHER -> TRUE

\* str(symbol): the text that names the raised error type.
PyStr(v) == IF v.tag = "sym" THEN v.name ELSE "?"

\* Symbol.python_name: the host attribute name of an operation.
python_name(v) ==
  CASE v.name = "AREA" -> "area"
    [] v.name = "GET-X" -> "get_x"
    [] v.name = "GET_X" -> "get_x"
    [] OTHER -> "other"

(***************************************************************************)
(* Names the model draws its inputs from.                                  *)
(***************************************************************************)
FnType == "FUNCTION"
GfType == "GF"
ObjType == "T"
TypeSyms == {FnType, GfType, ObjType}
MethodNames == {"area", "get_x", "other"}
DefaultPackage == Str("COMMON-LISP-USER")
Packages == {DefaultPackage, Str("P")}
ClassInformation == "cl4py:class-information"

(***************************************************************************)
(* Expressions handed to eval and the request line the writer makes of     *)
(* them.  The line records the package the writer abbreviated against.     *)
(***************************************************************************)
FunctionExpr(name) == [op |-> "function", name |-> name, arg |-> NIL]
FuncallExpr(h, arg) == [op |-> "funcall", name |-> h, arg |-> arg]
DefparameterExpr(name, v) == [op |-> "defparameter", name |-> name, arg |-> v]
SetfExpr(name, v) == [op |-> "setf", name |-> name, arg |-> v]
UserExpr == [op |-> "user", name |-> "", arg |-> NIL]

lispify(pkg, expr) == [form |-> expr, inpkg |-> pkg]

KindOf(line) ==
  CASE line.form.op = "function" -> "function"
    [] line.form.op = "funcall" /\ line.form.name = ClassInformation ->
         "classinfo"
    [] line.form.op = "funcall" /\ line.form.name = "CL:REQUIRE" -> "require"
    [] line.form.op = "defparameter" -> "defparameter"
    [] line.form.op = "setf" -> "setf"
    [] OTHER -> "user"

VARIABLES
  package,              \* self.package
  classes,              \* self.classes: type symbol -> class (0: no entry)
  unpatched_instances,  \* self.unpatched_instances, in insertion order
  inst,                 \* the foreign instances created so far
  members,              \* per class, the attached member functions
  stdin,                \* request lines written, not yet taken by the engine
  stdout,               \* values printed by the engine, not yet read
  eng,                  \* the engine: idle, or printing a frame
  engPkg,               \* the engine's current package
  dead,                 \* the engine process has exited
  stack,                \* the activations of eval, outermost first
  caller,               \* what the code around the session is doing
  last,                 \* how the most recent activation of eval ended
  rd,                   \* per request written, how many frame values were read
  queried,              \* per type symbol, class-information calls written
  backtrace,            \* self._backtrace
  thr,                  \* the threads that use the session
  probe                 \* a value handed to the writer, the reader or a method

vars == <<package, classes, unpatched_instances, inst, members, stdin, stdout,
          eng, engPkg, dead, stack, caller, last, rd, queried, backtrace, thr,
          probe>>

(***************************************************************************)
(* The reader (reader.py), at its boundary: a reference to an engine-side  *)
(* object becomes an instance of the cached class of its type symbol, or   *)
(* a placeholder LispWrapper recorded in unpatched_instances.              *)
(***************************************************************************)
Register(unp, name, id) ==
  IF \E k \in 1..Len(unp) : unp[k].name = name
  THEN [k \in 1..Len(unp) |->
          IF unp[k].name = name
          THEN [unp[k] EXCEPT !.insts = Append(@, id)]
          ELSE unp[k]]
  ELSE Append(unp, [name |-> name, insts |-> <<id>>])

RECURSIVE read(_, _, _)
read(w, cl, st) ==
  CASE w.tag = "ref" ->
         LET id == Len(st.inst) + 1
             c == cl[w.type]
         IN [v |-> Obj(id),
             inst |-> Append(st.inst,
                        [type |-> w.type, cls |-> c, handle |-> w.handle]),
             unp |-> IF c # 0 THEN st.unp ELSE Register(st.unp, w.type, id)]
    [] w.tag = "cons" ->
         LET a == read(w.car, cl, st)
             d == read(w.cdr, cl, [inst |-> a.inst, unp |-> a.unp])
         IN [v |-> Cons(a.v, d.v), inst |-> d.inst, unp |-> d.unp]
    [] OTHER -> [v |-> w, inst |-> st.inst, unp |-> st.unp]

(***************************************************************************)
(* The engine (py.lisp), at its boundary: it takes one request line,       *)
(* evaluates it and prints package, values, condition and output.          *)
(***************************************************************************)
Conditions ==
  { MkList(<<Symbol("E1")>>),
    MkList(<<Symbol("E2"), Str("boom")>>) }

UserVals ==
  { NIL,
    MkList(<<Num(1)>>),
    MkList(<<Num(1), Num(2)>>),
    MkList(<<Ref(ObjType, "obj")>>),
    MkList(<<Ref(ObjType, "obj"), Ref(GfType, "gf")>>) }

\* The values a user's form may leave next to a condition.
FailedVals == { NIL, MkList(<<Ref(ObjType, "obj")>>) }

ALists ==
  { NIL,
    MkList(<<Cons(Symbol("AREA"), Ref(GfType, "gf"))>>) }

Outputs == { Str("hi") }

\* The frames the engine may answer a request line with.
Frames(line, pkg) ==
  LET ok == CASE KindOf(line) = "function" ->
                   { MkList(<<Ref(FnType, line.form.name)>>) }
              [] KindOf(line) = "classinfo" ->
                   { MkList(<<al>>) : al \in ALists }
              [] KindOf(line) = "require" -> { MkList(<<NIL>>) }
              [] KindOf(line) = "defparameter" ->
                   { MkList(<<Symbol(line.form.name)>>) }
              [] KindOf(line) = "setf" ->
                   { MkList(<<IF line.form.arg THEN Symbol("T") ELSE NIL>>) }
              [] OTHER -> UserVals
      failed == IF KindOf(line) = "user" THEN FailedVals ELSE {NIL}
  IN { <<pkg, v, NIL, o>> : v \in ok, o \in Outputs }
     \cup { <<pkg, v, c, o>> : v \in failed, c \in Conditions, o \in Outputs }

Idle == [busy |-> FALSE, req |-> 0, frame |-> <<>>, pos |-> 0]

(***************************************************************************)
(* An activation of eval: its argument, its locals and its position.  The  *)
(* body of eval is the statement list Body; pc indexes it.                 *)
(***************************************************************************)
\* Variant of Body: the resolution pass runs as soon as the result is read.
BodyEarlyResolve ==
  << "write", "read_pkg", "read_val", "snapshot", "resolve", "read_err",
     "read_output", "set_package", "raise_if_err", "return" >>

\* Variant of Body: the output text is left unread.
BodyShort ==
  << "write", "read_pkg", "read_val", "read_err", "set_package",
     "raise_if_err", "snapshot", "resolve", "return" >>

\* Variant of Body: the package is recorded as soon as it is read.
BodyEarlyPackage ==
  << "write", "read_pkg", "set_package", "read_val", "read_err",
     "read_output", "raise_if_err", "snapshot", "resolve", "return" >>

Body ==
  << "write",          \* lisp.py 95-97
     "read_pkg",       \* 98
     "read_val",       \* 99
     "read_err",       \* 100
     "read_output",    \* 101
     "set_package",    \* 103
     "raise_if_err",   \* 108-114
     "snapshot",       \* 117-118
     "resolve",        \* 119-126
     "return" >>       \* 129-142

ReadStmts == {"read_pkg", "read_val", "read_err", "read_output"}

Slot(stmt) ==
  CASE stmt = "read_pkg" -> "pkg"
    [] stmt = "read_val" -> "val"
    [] stmt = "read_err" -> "err"
    [] stmt = "read_output" -> "output"

Activation(expr, rlo) ==
  [expr |-> expr, return_lisp_output |-> rlo, req |-> 0, pc |-> 1,
   sub |-> "iter", pkg |-> NIL, val |-> NIL, err |-> NIL, output |-> NIL,
   got |-> <<>>, items |-> <<>>, idx |-> 1, cls |-> 0, fn |-> None,
   alist |-> NIL, pkg0 |-> package]

Top == stack[Len(stack)]
SetTop(a) == [stack EXCEPT ![Len(stack)] = a]
Stmt(a) == Body[a.pc]
Running(stmt) == stack # <<>> /\ Stmt(Top) = stmt

NoError == [kind |-> "none", name |-> "", msg |-> NIL]
Finished(how, a, value, e, depth) ==
  [how |-> how, value |-> value, err |-> e, expr |-> a.expr,
   frame |-> <<a.pkg, a.val, a.err, a.output>>, nread |-> Len(a.got),
   return_lisp_output |-> a.return_lisp_output,
   pkg0 |-> a.pkg0, depth |-> depth]

NoneYet == [how |-> "none", value |-> None, err |-> NoError, expr |-> UserExpr,
            frame |-> <<NIL, NIL, NIL, NIL>>, nread |-> 0,
            return_lisp_output |-> FALSE, pkg0 |-> NIL, depth |-> 0]

\* the session is used by the thread that made it
OneThread == [cur |-> 1, other |-> <<>>, mutex |-> 0, use_mutex |-> FALSE,
              calls |-> <<0, 0>>, switches |-> 0]

NoProbe == [at |-> "none"]

InitSession ==
  /\ package = DefaultPackage
  /\ classes = [t \in TypeSyms |-> 0]
  /\ unpatched_instances = <<>>
  /\ inst = <<>>
  /\ members = <<>>
  /\ stdin = <<>>
  /\ stdout = <<>>
  /\ eng = Idle
  /\ engPkg = DefaultPackage
  /\ dead = FALSE
  /\ stack = <<>>
  /\ caller = [phase |-> "ctor1", fn |-> None, calls |-> 0,
               classes0 |-> [t \in TypeSyms |-> 0], unp0 |-> <<>>,
               op |-> "ctor", spc |-> 0, value |-> TRUE, flag0 |-> None]
  /\ last = NoneYet
  /\ rd = <<>>
  /\ queried = [t \in TypeSyms |-> 0]
  /\ backtrace = None

Init ==
  /\ InitSession
  /\ thr = OneThread
  /\ probe = NoProbe

(***************************************************************************)
(* An exception leaves eval and every eval that called it: eval has no     *)
(* handler.  A failed constructor leaves no session; a stream that failed  *)
(* in the middle of a frame leaves a session that is not used again.       *)
(***************************************************************************)
AfterRaise(e) ==
  IF caller.phase \in {"ctor1", "ctor2", "ctor3"} THEN "failed"
  ELSE IF e.kind = "condition" THEN caller.phase
  ELSE "broken"

Raise(e) ==
  /\ stack' = <<>>
  /\ last' = Finished("raise", Top, None, e, Len(stack))
  /\ caller' = [caller EXCEPT !.phase = AfterRaise(e), !.spc = 0]

ParseError == [kind |-> "parse", name |-> "SyntaxError", msg |-> NIL]
TransportError == [kind |-> "transport", name |-> "OSError", msg |-> NIL]
TypeError == [kind |-> "host", name |-> "TypeError", msg |-> NIL]
AttributeError == [kind |-> "host", name |-> "AttributeError", msg |-> NIL]

(***************************************************************************)
(* The code around the session: the constructor's three calls (lisp.py     *)
(* 45, 52), then any number of calls of eval.                              *)
(***************************************************************************)
Enter(expr, rlo) == stack' = Append(stack, Activation(expr, rlo))

\* the caller, with the cache and the pending map as the call finds them
Entered(c) == [c EXCEPT !.classes0 = classes, !.unp0 = unpatched_instances]

\* self.function('CL:REQUIRE'): eval( ('CL:FUNCTION', name) )
CtorFunction ==
  /\ stack = <<>> /\ caller.phase = "ctor1"
  /\ Enter(FunctionExpr("CL:REQUIRE"), FALSE)
  /\ caller' = Entered(caller)
  /\ UNCHANGED <<package, classes, unpatched_instances, inst, members, stdin,
                 stdout, eng, engPkg, dead, last, rd, queried>>
  /\ UNCHANGED <<backtrace, thr, probe>>

\* (...)(Symbol("ASDF", "KEYWORD")): LispWrapper.__call__ evaluates a funcall
CtorRequire ==
  /\ stack = <<>> /\ caller.phase = "ctor2"
  /\ caller.fn.tag = "obj"
  /\ Enter(FuncallExpr(inst[caller.fn.id].handle, Symbol("ASDF")), FALSE)
  /\ caller' = Entered(caller)
  /\ UNCHANGED <<package, classes, unpatched_instances, inst, members, stdin,
                 stdout, eng, engPkg, dead, last, rd, queried>>
  /\ UNCHANGED <<backtrace, thr, probe>>

\* self._backtrace = backtrace
\* self.eval( ('defparameter', 'cl4py::*backtrace*', backtrace) )
CtorBacktrace ==
  /\ stack = <<>> /\ caller.phase = "ctor3"
  /\ backtrace' = TRUE
  /\ Enter(DefparameterExpr("cl4py::*backtrace*", TRUE), FALSE)
  /\ caller' = Entered(caller)
  /\ UNCHANGED <<package, classes, unpatched_instances, inst, members, stdin,
                 stdout, eng, engPkg, dead, last, rd, queried>>
  /\ UNCHANGED <<thr, probe>>

\* a call of eval by the user of the session
Call ==
  /\ stack = <<>> /\ caller.phase = "ready" /\ caller.spc = 0
  /\ caller.calls < MaxCalls
  /\ \E rlo \in BOOLEAN : Enter(UserExpr, rlo)
  /\ caller' = [Entered(caller) EXCEPT !.calls = @ + 1, !.op = "eval"]
  /\ last' = NoneYet
  /\ UNCHANGED <<package, classes, unpatched_instances, inst, members, stdin,
                 stdout, eng, engPkg, dead, rd, queried>>
  /\ UNCHANGED <<backtrace, thr, probe>>

\* Variant of SetterBody: the flag is recorded before the request is made.
SetterBodyEager == << "assign", "eval", "return" >>

\* 63-65: the body of the setter of the property backtrace
SetterBody ==
  << "eval",           \* 63
     "assign",         \* 64
     "return" >>       \* 65

InSetter(stmt) ==
  /\ stack = <<>> /\ caller.phase = "ready"
  /\ caller.spc > 0 /\ SetterBody[caller.spc] = stmt

\* lisp.backtrace = value, by the user of the session
SetBacktrace ==
  /\ stack = <<>> /\ caller.phase = "ready" /\ caller.spc = 0
  /\ caller.calls < MaxCalls
  /\ \E v \in BOOLEAN :
       caller' = [Entered(caller) EXCEPT !.calls = @ + 1, !.op = "setter",
                                         !.spc = 1, !.value = v,
                                         !.flag0 = backtrace]
  /\ last' = NoneYet
  /\ UNCHANGED <<package, classes, unpatched_instances, inst, members, stdin,
                 stdout, eng, engPkg, dead, stack, rd, queried, backtrace, thr,
                 probe>>

\* 63: self.eval( ('setf', 'cl4py::*backtrace*', Quote(value)) )
SetterEval ==
  /\ InSetter("eval")
  /\ Enter(SetfExpr("cl4py::*backtrace*", caller.value), FALSE)
  /\ UNCHANGED <<package, classes, unpatched_instances, inst, members, stdin,
                 stdout, eng, engPkg, dead, caller, last, rd, queried,
                 backtrace, thr, probe>>

\* 64: self._backtrace = value
SetterAssign ==
  /\ InSetter("assign")
  /\ backtrace' = caller.value
  /\ caller' = [caller EXCEPT !.spc = @ + 1]
  /\ UNCHANGED <<package, classes, unpatched_instances, inst, members, stdin,
                 stdout, eng, engPkg, dead, stack, last, rd, queried, thr,
                 probe>>

\* 65: return self._backtrace
SetterReturn ==
  /\ InSetter("return")
  /\ caller' = [caller EXCEPT !.spc = 0]
  /\ UNCHANGED <<package, classes, unpatched_instances, inst, members, stdin,
                 stdout, eng, engPkg, dead, stack, last, rd, queried,
                 backtrace, thr, probe>>

NextPhase(ph) ==
  CASE ph = "ctor1" -> "ctor2"
    [] ph = "ctor2" -> "ctor3"
    [] OTHER -> "ready"

(***************************************************************************)
(* eval, statement by statement.                                           *)
(***************************************************************************)
\* 95-97: sexp = lispify(self, expr); self.stdin.write(sexp + '\n')
Write ==
  /\ Running("write")
  /\ LET line == lispify(package, Top.expr)
         r == Len(rd) + 1
     IN /\ stdin' = Append(stdin, [req |-> r, line |-> line])
        /\ rd' = Append(rd, 0)
        /\ queried' = IF KindOf(line) = "classinfo"
                      THEN [queried EXCEPT ![Top.expr.arg.name] = @ + 1]
                      ELSE queried
        /\ stack' = SetTop([Top EXCEPT !.req = r, !.pc = @ + 1])
  /\ UNCHANGED <<package, classes, unpatched_instances, inst, members, stdout,
                 eng, engPkg, dead, caller, last>>
  /\ UNCHANGED <<backtrace, thr, probe>>

\* 98-101: one self.readtable.read(self.stdout)
Read ==
  /\ stack # <<>> /\ Stmt(Top) \in ReadStmts
  /\ IF stdout # <<>>
     THEN LET h == Head(stdout) IN
          /\ stdout' = Tail(stdout)
          /\ rd' = [rd EXCEPT ![h.req] = @ + 1]
          /\ IF h.w = Bad
             THEN /\ Raise(ParseError)
                  /\ UNCHANGED <<inst, unpatched_instances>>
             ELSE LET r == read(h.w, classes,
                                [inst |-> inst, unp |-> unpatched_instances])
                  IN /\ inst' = r.inst
                     /\ unpatched_instances' = r.unp
                     /\ stack' = SetTop([Top EXCEPT
                                   ![Slot(Stmt(Top))] = r.v,
                                   !.got = Append(@, [req |-> h.req,
                                                      pos |-> h.pos]),
                                   !.pc = @ + 1])
                     /\ UNCHANGED <<caller, last>>
     ELSE /\ dead
          /\ Raise(TransportError)
          /\ UNCHANGED <<stdout, rd, inst, unpatched_instances>>
  /\ UNCHANGED <<package, classes, members, stdin, eng, engPkg, dead, queried>>
  /\ UNCHANGED <<backtrace, thr, probe>>

\* Variant of NewPackage: the recorded package is left as it was.
NewPackageStale(a) == a.pkg0

\* 103: the value assigned to self.package
NewPackage(a) == a.pkg

\* 103: self.package = pkg
SetPackage ==
  /\ Running("set_package")
  /\ package' = NewPackage(Top)
  /\ stack' = SetTop([Top EXCEPT !.pc = @ + 1])
  /\ UNCHANGED <<classes, unpatched_instances, inst, members, stdin, stdout,
                 eng, engPkg, dead, caller, last, rd, queried>>
  /\ UNCHANGED <<backtrace, thr, probe>>

\* Variant of ConditionError: the message is not passed on.
ConditionErrorNoMsg(err) ==
  [kind |-> "condition", name |-> PyStr(err.car), msg |-> Str("")]

\* 109-114: the error raised for a condition
ConditionError(err) ==
  [kind |-> "condition",
   name |-> PyStr(err.car),
   msg |-> IF Truthy(err.cdr) THEN err.cdr.car ELSE Str("")]

\* 108: if isinstance(err, Cons): raise
RaiseIfErr ==
  /\ Running("raise_if_err")
  /\ IF IsCons(Top.err)
     THEN Raise(ConditionError(Top.err))
     ELSE /\ stack' = SetTop([Top EXCEPT !.pc = @ + 1])
          /\ UNCHANGED <<caller, last>>
  /\ UNCHANGED <<package, classes, unpatched_instances, inst, members, stdin,
                 stdout, eng, engPkg, dead, rd, queried>>
  /\ UNCHANGED <<backtrace, thr, probe>>

\* Variant of Snapshot: the pending map is copied and not cleared.
SnapshotNoClear ==
  /\ Running("snapshot")
  /\ stack' = SetTop([Top EXCEPT !.items = unpatched_instances, !.idx = 1,
                                 !.sub = "iter", !.pc = @ + 1])
  /\ UNCHANGED <<package, classes, unpatched_instances, inst, members, stdin,
                 stdout, eng, engPkg, dead, caller, last, rd, queried>>
  /\ UNCHANGED <<backtrace, thr, probe>>

\* 117-118: items = list(...items()); self.unpatched_instances.clear()
Snapshot ==
  /\ Running("snapshot")
  /\ stack' = SetTop([Top EXCEPT !.items = unpatched_instances, !.idx = 1,
                                 !.sub = "iter", !.pc = @ + 1])
  /\ unpatched_instances' = <<>>
  /\ UNCHANGED <<package, classes, inst, members, stdin, stdout, eng, engPkg,
                 dead, caller, last, rd, queried>>
  /\ UNCHANGED <<backtrace, thr, probe>>

\* 120: cls = type(cls_name.python_name, (LispWrapper,), {}): a new class
NewClass(cl, mem, name) == Len(mem) + 1

\* Variant of Cached: the class is not entered before the calls of line 122.
CachedLate(cl, name, cls) == cl

\* 121: self.classes[cls_name] = cls
Cached(cl, name, cls) == [cl EXCEPT ![name] = cls]

\* 119-122: next item: create the class, cache it, look up class-information
ResolveNext ==
  /\ Running("resolve") /\ Top.sub = "iter"
  /\ Top.idx <= Len(Top.items)
  /\ Len(stack) < MaxDepth
  /\ LET name == Top.items[Top.idx].name
         cls == NewClass(classes, members, name)
     IN /\ classes' = Cached(classes, name, cls)
        /\ members' = IF cls > Len(members)
                      THEN Append(members, [m \in MethodNames |-> 0])
                      ELSE members
        /\ stack' = Append(SetTop([Top EXCEPT !.cls = cls,
                                              !.sub = "await_fn"]),
                           Activation(FunctionExpr(ClassInformation), FALSE))
  /\ UNCHANGED <<package, unpatched_instances, inst, stdin, stdout, eng,
                 engPkg, dead, caller, last, rd, queried>>
  /\ UNCHANGED <<backtrace, thr, probe>>

\* 122: (...)(cls_name): LispWrapper.__call__ evaluates a funcall
ResolveCall ==
  /\ Running("resolve") /\ Top.sub = "call"
  /\ IF Top.fn.tag = "obj"
     THEN /\ stack' = Append(SetTop([Top EXCEPT !.sub = "await_alist"]),
                 Activation(FuncallExpr(inst[Top.fn.id].handle,
                                        Symbol(Top.items[Top.idx].name)),
                            FALSE))
          /\ UNCHANGED <<caller, last>>
     ELSE Raise(TypeError)
  /\ UNCHANGED <<package, classes, unpatched_instances, inst, members, stdin,
                 stdout, eng, engPkg, dead, rd, queried>>
  /\ UNCHANGED <<backtrace, thr, probe>>

\* 153-155: add_member_function, for each cons of the alist in order
RECURSIVE AddMembers(_, _)
AddMembers(table, conses) ==
  IF conses = <<>> THEN table
  ELSE AddMembers([table EXCEPT ![python_name(Head(conses).car)] =
                                    Head(conses).cdr.id],
                  Tail(conses))

\* Variant of Patch: every instance met so far is given the class.
PatchAll(insts, ids, cls) ==
  [i \in 1..Len(insts) |-> [insts[i] EXCEPT !.cls = cls]]

\* Variant of MemberFunction: the receiver is not passed on.
MemberFunctionNoSelf(gf, self, args) == [fn |-> gf, args |-> args]

\* 155: lambda self, *args: gf(self, *args), called on self with args
MemberFunction(gf, self, args) == [fn |-> gf, args |-> <<self>> \o args]

\* 125-126: instance.__class__ = cls, for the instances of the item
Patch(insts, ids, cls) ==
  [i \in 1..Len(insts) |->
     IF \E k \in 1..Len(ids) : ids[k] = i
     THEN [insts[i] EXCEPT !.cls = cls]
     ELSE insts[i]]

\* 123-126: attach the members, patch the instances, go to the next item
ResolveAttach ==
  /\ Running("resolve") /\ Top.sub = "attach"
  /\ members' = [members EXCEPT ![Top.cls] =
                    AddMembers(@, ListElems(Top.alist))]
  /\ inst' = Patch(inst, Top.items[Top.idx].insts, Top.cls)
  /\ stack' = SetTop([Top EXCEPT !.idx = @ + 1, !.sub = "iter"])
  /\ UNCHANGED <<package, classes, unpatched_instances, stdin, stdout, eng,
                 engPkg, dead, caller, last, rd, queried>>
  /\ UNCHANGED <<backtrace, thr, probe>>

\* 119: the loop is over
ResolveDone ==
  /\ Running("resolve") /\ Top.sub = "iter"
  /\ Top.idx > Len(Top.items)
  /\ stack' = SetTop([Top EXCEPT !.pc = @ + 1])
  /\ UNCHANGED <<package, classes, unpatched_instances, inst, members, stdin,
                 stdout, eng, engPkg, dead, caller, last, rd, queried>>
  /\ UNCHANGED <<backtrace, thr, probe>>

\* Variant of Result: a single value is not taken out of its list.
ResultNoUnwrap(val) ==
  IF val = NIL THEN None ELSE Tuple(ListElems(val))

\* 137-142: the value made of the result list
Result(val) ==
  IF val = NIL THEN None
  ELSE IF val.cdr = NIL THEN val.car
  ELSE Tuple(ListElems(val))

\* Variant of ResultWithOutput: the result list is returned as it was read.
ResultWithOutputRaw(val, output) == Tuple(<<val, output>>)

\* 130-135: the pair made of the result list and the output text
ResultWithOutput(val, output) ==
  IF val = NIL THEN Tuple(<<None, output>>)
  ELSE IF val.cdr = NIL THEN Tuple(<<val.car, output>>)
  ELSE Tuple(<<Tuple(ListElems(val)), output>>)

\* 129: if return_lisp_output: ... else: ...
Returned(a) ==
  IF a.return_lisp_output
  THEN ResultWithOutput(a.val, a.output)
  ELSE Result(a.val)

\* 129-142: return to the caller: the code around the session, line 150
\* (function) and then 122, or line 122
\* (val.cdr of a value that is no list has no such attribute)
Return ==
  /\ Running("return")
  /\ IF Top.val # NIL /\ ~IsCons(Top.val)
     THEN Raise(AttributeError)
     ELSE
     LET v == Returned(Top)
         n == Len(stack)
     IN /\ last' = Finished("return", Top, v, NoError, n)
        /\ IF n = 1
           THEN /\ stack' = <<>>
                /\ caller' = [caller EXCEPT
                                !.phase = NextPhase(caller.phase),
                                !.fn = IF caller.phase = "ctor1" THEN v
                                       ELSE @,
                                !.spc = IF @ > 0 THEN @ + 1 ELSE 0]
           ELSE /\ stack' = [k \in 1..(n - 1) |->
                               IF k < n - 1 THEN stack[k]
                               ELSE IF stack[k].sub = "await_fn"
                                    THEN [stack[k] EXCEPT !.fn = v,
                                                          !.sub = "call"]
                                    ELSE [stack[k] EXCEPT !.alist = v,
                                                          !.sub = "attach"]]
                /\ UNCHANGED caller
  /\ UNCHANGED <<package, classes, unpatched_instances, inst, members, stdin,
                 stdout, eng, engPkg, dead, rd, queried>>
  /\ UNCHANGED <<backtrace, thr, probe>>

(***************************************************************************)
(* The engine.  It runs as long as the host holds its pipes.               *)
(***************************************************************************)
Attached == caller.phase \notin {"failed", "broken"}

\* read one line, evaluate it; only a user's form can change the package
EngineEval ==
  /\ Attached /\ ~dead /\ ~eng.busy /\ stdin # <<>>
  /\ LET q == Head(stdin) IN
     \E p \in (IF KindOf(q.line) = "user" THEN Packages ELSE {engPkg}) :
       \E f \in Frames(q.line, p) :
         /\ eng' = [busy |-> TRUE, req |-> q.req, frame |-> f, pos |-> 1]
         /\ engPkg' = p
  /\ stdin' = Tail(stdin)
  /\ UNCHANGED <<package, classes, unpatched_instances, inst, members, stdout,
                 dead, stack, caller, last, rd, queried>>
  /\ UNCHANGED <<backtrace, thr, probe>>

\* print the next value of the frame; text the reader rejects ends the
\* session, so nothing is printed after it
EnginePrint ==
  /\ Attached /\ ~dead /\ eng.busy
  /\ \E w \in {eng.frame[eng.pos], Bad} :
       /\ stdout' = Append(stdout,
                           [req |-> eng.req, pos |-> eng.pos, w |-> w])
       /\ eng' = IF eng.pos = 4 \/ w = Bad THEN Idle
                 ELSE [eng EXCEPT !.pos = @ + 1]
  /\ UNCHANGED <<package, classes, unpatched_instances, inst, members, stdin,
                 engPkg, dead, stack, caller, last, rd, queried>>
  /\ UNCHANGED <<backtrace, thr, probe>>

\* the engine process exits in the middle of a frame
EngineExit ==
  /\ Attached /\ ~dead /\ eng.busy
  /\ dead' = TRUE
  /\ UNCHANGED <<package, classes, unpatched_instances, inst, members, stdin,
                 stdout, eng, engPkg, stack, caller, last, rd, queried>>
  /\ UNCHANGED <<backtrace, thr, probe>>

Next ==
  \/ CtorFunction \/ CtorRequire \/ CtorBacktrace \/ Call
  \/ SetBacktrace \/ SetterEval \/ SetterAssign \/ SetterReturn
  \/ Write \/ Read \/ SetPackage \/ RaiseIfErr \/ Snapshot
  \/ ResolveNext \/ ResolveCall \/ ResolveAttach \/ ResolveDone \/ Return
  \/ EngineEval \/ EnginePrint \/ EngineExit

Spec == Init /\ [][Next]_vars

\* Bound of the model: calls made by the user of a session whose evals are
\* followed to their end.
MaxFairCalls == 1

NextFair ==
  \/ CtorFunction \/ CtorRequire \/ CtorBacktrace
  \/ (Call /\ caller.calls < MaxFairCalls)
  \/ (SetBacktrace /\ caller.calls < MaxFairCalls)
  \/ SetterEval \/ SetterAssign \/ SetterReturn
  \/ Write \/ Read \/ SetPackage \/ RaiseIfErr \/ Snapshot
  \/ ResolveNext \/ ResolveCall \/ ResolveAttach \/ ResolveDone \/ Return
  \/ EngineEval \/ EnginePrint

\* the host's thread and the engine's process keep running, and the engine
\* does not exit
SpecFair == Init /\ [][NextFair]_vars /\ WF_vars(NextFair)

(***************************************************************************)
(* The member functions of one synthesized class (lines 120, 123-124 and   *)
(* 153-155), for every list of operations up to MaxPairs pairs, and a call *)
(* of one of its methods.                                                  *)
(***************************************************************************)
MaxPairs == 3

OperationNames == {"AREA", "GET-X", "GET_X"}
Operations == {Cons(Symbol(n), Obj(g)) : n \in OperationNames, g \in 1..2}

RECURSIVE SeqsUpTo(_, _)
SeqsUpTo(S, n) ==
  IF n = 0 THEN {<<>>}
  ELSE LET shorter == SeqsUpTo(S, n - 1)
       IN shorter \cup {Append(q, x) : q \in shorter, x \in S}

InitMethods ==
  /\ InitSession
  /\ thr = OneThread
  /\ \E ops \in SeqsUpTo(Operations, MaxPairs) :
       \E args \in {<<>>, <<Num(1)>>, <<Num(1), Num(2)>>} :
         probe = [at |-> "alist", alist |-> MkList(ops), self |-> Obj(9),
                  args |-> args]

Elsewhere == <<package, classes, unpatched_instances, inst, members, stdin,
               stdout, eng, engPkg, dead, stack, caller, last, rd, queried,
               backtrace, thr>>

\* 120, 123-124: the new class and its member functions
Synthesize ==
  /\ probe.at = "alist"
  /\ probe' = [at |-> "class", alist |-> probe.alist, self |-> probe.self,
               args |-> probe.args,
               table |-> AddMembers([m \in MethodNames |-> 0],
                                    ListElems(probe.alist))]
  /\ UNCHANGED Elsewhere

\* a call self.method_name(*args) on an instance of the class
CallMethod ==
  /\ probe.at = "class"
  /\ \E m \in MethodNames :
       /\ probe.table[m] # 0
       /\ probe' = [at |-> "called", alist |-> probe.alist,
                    self |-> probe.self, args |-> probe.args,
                    table |-> probe.table, method |-> m,
                    call |-> MemberFunction(probe.table[m], probe.self,
                                            probe.args)]
  /\ UNCHANGED Elsewhere

NextMethods == Synthesize \/ CallMethod

SpecMethods == InitMethods /\ [][NextMethods]_vars

(***************************************************************************)
(* The writer (lispify, line 95) and the reader (lines 98-101) on text: a  *)
(* text is a sequence of characters.  Symbols carry their package here,    *)
(* and the names of packages and symbols and the contents of strings are   *)
(* sequences of characters.                                                *)
(***************************************************************************)
MaxLen == 2

QSymbol(n, p) == [tag |-> "sym", name |-> n, package |-> p]

DigitChars == <<"0", "1", "2", "3", "4", "5", "6", "7", "8", "9">>

RECURSIVE Digits(_)
Digits(n) ==
  IF n < 10 THEN <<DigitChars[n + 1]>>
  ELSE Digits(n \div 10) \o <<DigitChars[(n % 10) + 1]>>

\* Variant of Escape: the characters are written as they are.
EscapeNothing(chars) == chars

\* a string's characters, quote and backslash behind a backslash
RECURSIVE Escape(_)
Escape(chars) ==
  IF chars = <<>> THEN <<>>
  ELSE (IF Head(chars) \in {"\"", "\\"}
        THEN <<"\\", Head(chars)>>
        ELSE <<Head(chars)>>) \o Escape(Tail(chars))

\* the text of a value, for a session whose current package is pkg
RECURSIVE serialize(_, _)
serialize(pkg, x) ==
  LET RECURSIVE items(_)
      items(c) ==
        serialize(pkg, c.car) \o
          (IF c.cdr = NIL THEN <<>>
           ELSE IF IsCons(c.cdr) THEN <<" ">> \o items(c.cdr)
           ELSE <<" ", ".", " ">> \o serialize(pkg, c.cdr))
  IN CASE x.tag = "nil" -> <<"(", ")">>
       [] x.tag = "int" ->
            IF x.n < 0 THEN <<"-">> \o Digits(0 - x.n) ELSE Digits(x.n)
       [] x.tag = "str" -> <<"\"">> \o Escape(x.s) \o <<"\"">>
       [] x.tag = "sym" ->
            IF x.package = pkg THEN x.name
            ELSE x.package \o <<":">> \o x.name
       [] x.tag = "cons" -> <<"(">> \o items(x) \o <<")">>

Delimiters == {" ", "(", ")", "\""}

RECURSIVE SkipSpaces(_)
SkipSpaces(t) ==
  IF t # <<>> /\ Head(t) = " " THEN SkipSpaces(Tail(t)) ELSE t

RECURSIVE TakeToken(_)
TakeToken(t) ==
  IF t = <<>> \/ Head(t) \in Delimiters THEN <<>>
  ELSE <<Head(t)>> \o TakeToken(Tail(t))

Drop(t, n) == SubSeq(t, n + 1, Len(t))

IsDigits(tok) ==
  /\ tok # <<>>
  /\ \A k \in 1..Len(tok) : \E d \in 1..10 : DigitChars[d] = tok[k]

IsInteger(tok) ==
  \/ IsDigits(tok)
  \/ Len(tok) > 1 /\ tok[1] \in {"-", "+"} /\ IsDigits(Tail(tok))

RECURSIVE DigitsValue(_, _)
DigitsValue(tok, acc) ==
  IF tok = <<>> THEN acc
  ELSE DigitsValue(Tail(tok),
                   10 * acc
                     + (CHOOSE d \in 0..9 : DigitChars[d + 1] = Head(tok)))

\* the value of a token that is neither a list nor a string
Atom(pkg, tok) ==
  IF IsInteger(tok)
  THEN IF tok[1] = "-" THEN Num(0 - DigitsValue(Tail(tok), 0))
       ELSE IF tok[1] = "+" THEN Num(DigitsValue(Tail(tok), 0))
       ELSE Num(DigitsValue(tok, 0))
  ELSE IF \E k \in 1..Len(tok) : tok[k] = ":"
  THEN LET k == CHOOSE k \in 1..Len(tok) :
                  /\ tok[k] = ":"
                  /\ \A j \in 1..(k - 1) : tok[j] # ":"
       IN QSymbol(Drop(tok, k), SubSeq(tok, 1, k - 1))
  ELSE QSymbol(tok, pkg)

Parsed(v, rest) == [ok |-> TRUE, v |-> v, rest |-> rest]
Malformed == [ok |-> FALSE, v |-> Bad, rest |-> <<>>]

\* the rest of a string, after its opening quote
RECURSIVE ReadString(_, _)
ReadString(t, acc) ==
  IF t = <<>> THEN Malformed
  ELSE IF Head(t) = "\"" THEN Parsed(Str(acc), Tail(t))
  ELSE IF Head(t) = "\\"
  THEN IF Len(t) < 2 THEN Malformed
       ELSE ReadString(Drop(t, 2), Append(acc, t[2]))
  ELSE ReadString(Tail(t), Append(acc, Head(t)))

\* one expression read from the text t, and the text left after it
RECURSIVE parse(_, _)
parse(pkg, t) ==
  LET RECURSIVE ReadList(_)
      ReadList(r) ==
        LET u == SkipSpaces(r) IN
        IF u = <<>> THEN Malformed
        ELSE IF Head(u) = ")" THEN Parsed(NIL, Tail(u))
        ELSE IF TakeToken(u) = <<".">>
        THEN LET d == parse(pkg, Tail(u))
                 w == SkipSpaces(d.rest)
             IN IF d.ok /\ w # <<>> /\ Head(w) = ")"
                THEN Parsed(d.v, Tail(w))
                ELSE Malformed
        ELSE LET a == parse(pkg, u) IN
             IF ~a.ok THEN Malformed
             ELSE LET d == ReadList(a.rest) IN
                  IF d.ok THEN Parsed(Cons(a.v, d.v), d.rest) ELSE Malformed
      u == SkipSpaces(t)
  IN IF u = <<>> THEN Malformed
     ELSE IF Head(u) = "(" THEN ReadList(Tail(u))
     ELSE IF Head(u) = ")" THEN Malformed
     ELSE IF Head(u) = "\"" THEN ReadString(Tail(u), <<>>)
     ELSE Parsed(Atom(pkg, TakeToken(u)), Drop(u, Len(TakeToken(u))))

PackageNames == { <<"C", "L", "-", "U", "S", "E", "R">>, <<"P">> }

TextAtoms ==
  { NIL, Num(0), Num(42), Num(0 - 7),
    Str(<<>>), Str(<<"a", " ", "\"", "\\", ")">>),
    QSymbol(<<"A">>, <<"C", "L", "-", "U", "S", "E", "R">>),
    QSymbol(<<"A", "-", "B">>, <<"P">>) }

TextElems ==
  TextAtoms \cup
    { Cons(Num(1), Str(<<"(">>)),
      MkList(<<QSymbol(<<"A">>, <<"P">>), NIL>>) }

RECURSIVE Chain(_, _)
Chain(q, tail) == IF q = <<>> THEN tail ELSE Cons(Head(q), Chain(Tail(q), tail))

\* atoms, and proper and dotted lists of up to MaxLen elements
TextValues ==
  { Chain(q, tail) : q \in SeqsUpTo(TextElems, MaxLen), tail \in TextAtoms }

InitText ==
  /\ InitSession
  /\ thr = OneThread
  /\ \E pkg \in PackageNames : \E x \in TextValues :
       probe = [at |-> "value", pkg |-> pkg, x |-> x]

\* 95: sexp = lispify(self, expr)
Serialize ==
  /\ probe.at = "value"
  /\ probe' = [at |-> "text", pkg |-> probe.pkg, x |-> probe.x,
               text |-> serialize(probe.pkg, probe.x)]
  /\ UNCHANGED Elsewhere

\* 98-101: self.readtable.read(...), of that text
Parse ==
  /\ probe.at = "text"
  /\ probe' = [at |-> "parsed", pkg |-> probe.pkg, x |-> probe.x,
               text |-> probe.text, out |-> parse(probe.pkg, probe.text)]
  /\ UNCHANGED Elsewhere

NextText == Serialize \/ Parse

SpecText == InitText /\ [][NextText]_vars

(***************************************************************************)
(* Two threads that call eval on one constructed session.  stack is the    *)
(* stack of the thread that runs, thr.other the stack of the thread that   *)
(* waits for the processor.  With thr.use_mutex each call of eval is made  *)
(* while holding one lock.  The engine's process does not exit here.       *)
(***************************************************************************)
\* Bound of the model: calls of eval made by the two threads together.
MaxThreadCalls == 2

\* Bound of the model: switches of thread.
MaxSwitches == 3

\* a session after its constructor, whose class-information call for
\* FUNCTION was answered with no operations
Constructed ==
  /\ package = DefaultPackage
  /\ classes = [t \in TypeSyms |-> IF t = FnType THEN 1 ELSE 0]
  /\ unpatched_instances = <<>>
  /\ inst = << [type |-> FnType, cls |-> 1, handle |-> "CL:REQUIRE"],
               [type |-> FnType, cls |-> 1, handle |-> ClassInformation] >>
  /\ members = << [m \in MethodNames |-> 0] >>
  /\ stdin = <<>>
  /\ stdout = <<>>
  /\ eng = Idle
  /\ engPkg = DefaultPackage
  /\ dead = FALSE
  /\ stack = <<>>
  /\ caller = [phase |-> "ready", fn |-> Obj(1), calls |-> 0,
               classes0 |-> [t \in TypeSyms |-> IF t = FnType THEN 1 ELSE 0],
               unp0 |-> <<>>, op |-> "ctor", spc |-> 0, value |-> TRUE,
               flag0 |-> None]
  /\ rd = <<4, 4, 4, 4, 4>>
  /\ queried = [t \in TypeSyms |-> IF t = FnType THEN 1 ELSE 0]
  /\ backtrace = TRUE

InitThreads ==
  /\ Constructed
  /\ last = NoneYet
  /\ probe = NoProbe
  /\ \E m \in BOOLEAN :
       thr = [cur |-> 1, other |-> <<>>, mutex |-> 0, use_mutex |-> m,
              calls |-> <<0, 0>>, switches |-> 0]

ThreadExpr(t) == DefparameterExpr(<<"X", "Y">>[t], TRUE)

\* Variant of ThreadCall: eval is called without waiting for the lock.
ThreadCallNoWait ==
  /\ stack = <<>> /\ caller.phase = "ready"
  /\ thr.calls[1] + thr.calls[2] < MaxThreadCalls
  /\ Enter(ThreadExpr(thr.cur), FALSE)
  /\ thr' = [thr EXCEPT !.calls[thr.cur] = @ + 1,
                        !.mutex = IF thr.use_mutex THEN thr.cur ELSE 0]
  /\ UNCHANGED <<package, classes, unpatched_instances, inst, members, stdin,
                 stdout, eng, engPkg, dead, caller, last, rd, queried,
                 backtrace, probe>>

\* the running thread calls eval, with the lock taken first if it is used
ThreadCall ==
  /\ stack = <<>> /\ caller.phase = "ready"
  /\ thr.calls[1] + thr.calls[2] < MaxThreadCalls
  /\ thr.use_mutex => thr.mutex = 0
  /\ Enter(ThreadExpr(thr.cur), FALSE)
  /\ thr' = [thr EXCEPT !.calls[thr.cur] = @ + 1,
                        !.mutex = IF thr.use_mutex THEN thr.cur ELSE 0]
  /\ UNCHANGED <<package, classes, unpatched_instances, inst, members, stdin,
                 stdout, eng, engPkg, dead, caller, last, rd, queried,
                 backtrace, probe>>

\* the running thread's eval has returned or raised: the lock is released
ThreadRelease ==
  /\ stack = <<>>
  /\ thr.mutex = thr.cur
  /\ thr' = [thr EXCEPT !.mutex = 0]
  /\ UNCHANGED <<package, classes, unpatched_instances, inst, members, stdin,
                 stdout, eng, engPkg, dead, stack, caller, last, rd, queried,
                 backtrace, probe>>

\* the processor goes to the other thread, which has an eval under way or
\* may still call one
Switch ==
  /\ thr.switches < MaxSwitches
  /\ \/ thr.other # <<>>
     \/ caller.phase = "ready" /\ thr.calls[1] + thr.calls[2] < MaxThreadCalls
  /\ thr' = [thr EXCEPT !.cur = 3 - @, !.other = stack, !.switches = @ + 1]
  /\ stack' = thr.other
  /\ UNCHANGED <<package, classes, unpatched_instances, inst, members, stdin,
                 stdout, eng, engPkg, dead, caller, last, rd, queried,
                 backtrace, probe>>

NextThreads ==
  \/ ThreadCall \/ ThreadRelease \/ Switch
  \/ Write \/ Read \/ SetPackage \/ RaiseIfErr \/ Snapshot \/ ResolveDone
  \/ Return
  \/ EngineEval \/ EnginePrint

SpecThreads == InitThreads /\ [][NextThreads]_vars

(***************************************************************************)
(* Properties.                                                             *)
(***************************************************************************)
Outstanding == {r \in 1..Len(rd) : rd[r] < 4}

\* C1: requests and frames alternate: at most one request is outstanding at
\* every moment, and when eval is about to write a request line (its own, a
\* nested one, a later one) every earlier frame has been read to its end.
C1_Alternation ==
  /\ Cardinality(Outstanding) <= 1
  /\ Running("write") => Outstanding = {}

\* a nested eval of a resolution pass is in the middle of its frame
C1_Witness ==
  /\ Len(stack) >= 2
  /\ Stmt(Top) = "read_err"
  /\ Outstanding = {Top.req}

OwnFrame(a) == [k \in 1..4 |-> [req |-> a.req, pos |-> k]]

\* C2: an eval that returns has read exactly four values, the four values
\* of its own request, in the order package, result, condition, output; an
\* eval under way has read a prefix of them.
C2_FourValues ==
  /\ \A d \in 1..Len(stack) :
       /\ Len(stack[d].got) <= 4
       /\ stack[d].got = SubSeq(OwnFrame(stack[d]), 1, Len(stack[d].got))
  /\ Running("return") => Top.got = OwnFrame(Top)

\* an eval returns a result of two values
C2_Witness ==
  /\ Running("return")
  /\ Len(ListElems(Top.val)) = 2
  /\ Len(Top.got) = 4

\* C3: when eval returns, self.package is the first value of the frame of
\* its own request, also when its frame started a resolution pass.
C3_Package ==
  Running("return") =>
    /\ Top.got[1] = [req |-> Top.req, pos |-> 1]
    /\ package = Top.pkg

\* a user's eval returns after a resolution pass and a change of package
C3_Witness ==
  /\ Running("return")
  /\ Len(stack) = 1
  /\ Top.items # <<>>
  /\ package # Top.pkg0

Mapped(l) == IF l.return_lisp_output THEN l.value.items[1] ELSE l.value

\* C4: an eval that returns maps the result list: no element to None, one
\* element to that element, two or more to the tuple of the elements.
C4_ResultMapping ==
  last.how = "return" =>
    LET e == ListElems(last.frame[2])
    IN /\ Len(e) = 0 => Mapped(last) = None
       /\ Len(e) = 1 => Mapped(last) = e[1]
       /\ Len(e) >= 2 => Mapped(last) = [tag |-> "tuple", items |-> e]

\* an eval returned a tuple of two values
C4_Witness ==
  /\ last.how = "return"
  /\ Len(ListElems(last.frame[2])) = 2
  /\ ~last.return_lisp_output

\* C5: a frame read to its end whose condition is (TYPE MSG ...) or (TYPE)
\* makes eval raise the error named after TYPE with message MSG or "", and
\* return nothing; a frame whose condition is the empty list raises no
\* condition error.
C5_Condition ==
  (last.how # "none" /\ last.nread = 4) =>
    LET c == last.frame[3]
    IN /\ IsCons(c) =>
            /\ last.how = "raise"
            /\ last.value = None
            /\ last.err.kind = "condition"
            /\ last.err.name = c.car.name
            /\ last.err.msg = IF IsCons(c.cdr) THEN c.cdr.car ELSE Str("")
       /\ c = NIL => last.err.kind # "condition"

\* eval raised the error of a condition that carries a message
C5_Witness ==
  /\ last.how = "raise"
  /\ last.err.kind = "condition"
  /\ last.err.msg = Str("boom")

\* C6: whenever a top-level eval has returned normally, every instance whose
\* type symbol is in self.classes has a synthesized class.
C6_NoneUnpatched ==
  (stack = <<>> /\ last.how = "return") =>
    \A i \in 1..Len(inst) :
      classes[inst[i].type] # 0 => inst[i].cls # 0

\* C7: every patched instance has the class that self.classes holds for
\* its type symbol, so two of the same type symbol have the same class.
C7_SameClass ==
  \A i \in 1..Len(inst) :
    inst[i].cls # 0 => inst[i].cls = classes[inst[i].type]

\* C8: class-information is asked at most once for each type symbol.
C8_QueriedOnce == \A t \in TypeSyms : queried[t] <= 1

\* C9: an entry of self.classes is never removed and never replaced.
C9_AppendOnly ==
  [][\A t \in TypeSyms : classes[t] # 0 => classes'[t] = classes[t]]_vars

\* C10: when reading a frame value fails, eval raises, every eval under way
\* ends without a value, and self.package is what it was when the failing
\* eval started.
C10_NoPartialFrame ==
  (last.how = "raise" /\ last.err.kind \in {"parse", "transport"}) =>
    /\ stack = <<>>
    /\ last.value = None
    /\ last.nread < 4
    /\ package = last.pkg0

\* the third value of a frame could not be read, after a first value that
\* names another package than the recorded one
C10_Witness ==
  /\ last.how = "raise"
  /\ last.err.kind \in {"parse", "transport"}
  /\ last.nread = 2
  /\ last.frame[1] \in Packages
  /\ last.frame[1] # package

\* C11: when a call of eval on the session raises the error of a condition,
\* self.classes and self.unpatched_instances are what they were when the
\* call was made.
C11_ConditionLeavesState ==
  (stack = <<>> /\ caller.phase = "ready" /\ last.how = "raise"
     /\ last.err.kind = "condition") =>
    /\ classes = caller.classes0
    /\ unpatched_instances = caller.unp0

PendingUnder(unp, i) ==
  \E k \in 1..Len(unp) :
    /\ unp[k].name = inst[i].type
    /\ \E j \in 1..Len(unp[k].insts) : unp[k].insts[j] = i

\* C12: when the class-information call of a resolution pass has failed and
\* eval has raised, every instance that still has the placeholder class is
\* recorded in self.unpatched_instances under its type symbol, and that
\* symbol has no entry in self.classes.
C12_NoSilentPlaceholder ==
  (stack = <<>> /\ caller.phase = "ready" /\ last.how = "raise"
     /\ last.depth >= 2 /\ last.expr.op = "funcall") =>
    \A i \in 1..Len(inst) :
      inst[i].cls = 0 =>
        /\ classes[inst[i].type] = 0
        /\ PendingUnder(unpatched_instances, i)

\* C14: the class of an instance is assigned at most once: an instance that
\* has a synthesized class keeps that class in every later step, whatever
\* eval, nested eval or raising frame the step belongs to.
C14_PatchedOnce ==
  [][\A i \in 1..Len(inst) :
       inst[i].cls # 0 => inst'[i].cls = inst[i].cls]_vars

\* two passes have resolved the same type symbol, and the instance patched
\* by the first pass still has the class of the first pass
C14_Witness ==
  \E i, j \in 1..Len(inst) :
    /\ i < j
    /\ inst[i].type = inst[j].type
    /\ inst[i].cls # 0 /\ inst[j].cls # 0
    /\ inst[i].cls < inst[j].cls

\* C15: when a resolution pass is at its loop (lines 119-126) it has copied
\* and emptied self.unpatched_instances, and the map is empty again after
\* each nested eval of the pass; it is empty whenever eval is about to
\* return.
C15_PendingCleared ==
  (Running("resolve") \/ Running("return")) => unpatched_instances = <<>>

\* a user's eval is about to return after a pass whose nested eval read an
\* instance of a type unknown until then, and resolved it
C15_Witness ==
  /\ Running("return")
  /\ Len(stack) = 1
  /\ caller.phase = "ready"
  /\ Top.items # <<>>
  /\ caller.classes0[GfType] = 0
  /\ classes[GfType] # 0

\* C17: eval with return_lisp_output returns the pair of the value that eval
\* returns without it (lines 137-142) for the same result list, and the
\* fourth value of the frame.
C17_OutputOnlyAdded ==
  (last.how = "return" /\ last.return_lisp_output) =>
    last.value = Tuple(<<Result(last.frame[2]), last.frame[4]>>)

\* a user's eval with return_lisp_output returned a single instance
C17_Witness ==
  /\ last.how = "return"
  /\ last.return_lisp_output
  /\ last.expr.op = "user"
  /\ Len(ListElems(last.frame[2])) = 1
  /\ last.value.items[1].tag = "obj"
  /\ last.frame[4] = Str("hi")

\* C19: every eval that has started ends, by a return or by a raise, and
\* the nested evals of the resolution passes never reach the depth where
\* the model stops them.
C19_Terminates ==
  /\ [](Len(stack) < MaxDepth)
  /\ (stack # <<>>) ~> (stack = <<>>)

\* the nested evals of two passes are under way, the inner pass resolving a
\* type that the frame of a class-information call brought in
C19_Witness ==
  /\ Len(stack) = 3
  /\ Top.expr.op = "funcall"
  /\ Top.expr.arg = Symbol(GfType)
  /\ Stmt(Top) = "read_val"

\* C20: while the setter of backtrace is under way and its eval has not
\* returned, and after its eval has raised, self._backtrace is what it was
\* when the setter was called; a step that changes self._backtrace on a
\* constructed session follows the return of the eval of the setf request
\* that carries the new value.
C20_FlagAfterAccept ==
  /\ [][(caller.phase = "ready" /\ backtrace' # backtrace) =>
          /\ stack = <<>>
          /\ last.how = "return" /\ last.depth = 1
          /\ last.expr = SetfExpr("cl4py::*backtrace*", backtrace')]_vars
  /\ []((caller.op = "setter" /\ (stack # <<>> \/ last.how # "return")) =>
          backtrace = caller.flag0)

\* a first assignment has set the flag to False, the eval of a second one,
\* of True, has raised
C20_Witness ==
  /\ stack = <<>>
  /\ caller.op = "setter" /\ caller.value = TRUE
  /\ last.how = "raise"
  /\ backtrace = FALSE

NamedAs(pairs, m) == {k \in 1..Len(pairs) : python_name(pairs[k].car) = m}

\* C16: a call of the method m of a synthesized class on self with args
\* calls the function of the last pair of the alist whose name has the
\* python_name m, with self followed by args as arguments.
C16_MethodCall ==
  probe.at = "called" =>
    LET pairs == ListElems(probe.alist)
        same == NamedAs(pairs, probe.method)
    IN /\ same # {}
       /\ \E k \in same :
            /\ \A j \in same : j <= k
            /\ probe.call.fn = pairs[k].cdr.id
       /\ probe.call.args = <<probe.self>> \o probe.args

\* a method was called whose name two pairs of the alist map to, with
\* different functions, and an argument
C16_Witness ==
  /\ probe.at = "called"
  /\ probe.method = "get_x"
  /\ probe.args # <<>>
  /\ LET pairs == ListElems(probe.alist)
     IN \E j, k \in NamedAs(pairs, "get_x") :
          /\ j < k
          /\ pairs[j].car # pairs[k].car
          /\ pairs[j].cdr # pairs[k].cdr

Activations == {stack[d] : d \in 1..Len(stack)}
                 \cup {thr.other[d] : d \in 1..Len(thr.other)}

\* C18: with the lock, every eval of either thread reads the values of the
\* frame of its own request, in their order, and returns after all four.
C18_MutexOwnFrame ==
  thr.use_mutex =>
    /\ \A a \in Activations :
         a.got = SubSeq(OwnFrame(a), 1, Len(a.got))
    /\ Running("return") => Top.got = OwnFrame(Top)

\* without the lock, an eval is about to return the result and the output
\* of the frame of the other thread's request
C18_Witness ==
  /\ ~thr.use_mutex
  /\ Running("return")
  /\ Top.req # 0
  /\ Top.got[2].req # Top.req
  /\ Top.got[4].req # Top.req

====
